---- MODULE Spec2Model ----
(***************************************************************************)
(* State-machine model of the THETA data explorer (src/app.py).            *)
(*                                                                         *)
(* The app is a Streamlit script: every user interaction re-runs main()    *)
(* from the top with the widgets' current values.  A state of the model    *)
(* is the loaded table, the widget values of the session, and what the     *)
(* last run of the script rendered.  Every action is "the user changes     *)
(* one widget and the script runs again" (build_filters, then the          *)
(* summary section of main).                                               *)
(***************************************************************************)
EXTENDS Integers, Sequences, FiniteSets, TLC

(***************************************************************************)
(* Bounds of the model and the one constant of the program.                *)
(***************************************************************************)
\* rows of a small table
NRows == 2
\* finite numeric cells are 1..MaxVal
MaxVal == 3
\* the user picks among the first MaxPick choices of a multiselect
MaxPick == 2
\* "if n_unique <= 40"
UniqueThreshold == 40

(***************************************************************************)
(* Cells.  A cell is a record [k, v]: k is the kind of value pandas holds  *)
(* in the cell, v the value (unused for the missing kinds).  Text is a     *)
(* sequence of one-character strings.                                      *)
(***************************************************************************)
NA == [k |-> "na", v |-> <<>>]
NaN == [k |-> "nan", v |-> 0]
Inf == [k |-> "inf", v |-> 0]
Txt(s) == [k |-> "str", v |-> s]
Num(n) == [k |-> "num", v |-> n]
Bool(b) == [k |-> "bool", v |-> b]

isna(cell) == cell.k \in {"na", "nan"}

(***************************************************************************)
(* The tables read_csv can hand to the app: an ordered list of columns,    *)
(* the dtype pandas infers for each, and the rows in file order.           *)
(***************************************************************************)
\* dtype inference of pd.read_csv for one parsed column
read_csv_dtype(cells) ==
    IF \A i \in DOMAIN cells : cells[i].k = "bool" THEN "bool"
    ELSE IF \A i \in DOMAIN cells : cells[i].k = "num" THEN "int64"
    ELSE IF \A i \in DOMAIN cells : cells[i].k \in {"num", "nan", "inf"} THEN "float64"
    ELSE "object"

load_from_file(cols, rows) ==
    [columns |-> cols,
     dtypes |-> [c \in {cols[j] : j \in DOMAIN cols} |->
                    read_csv_dtype([i \in DOMAIN rows |-> rows[i][c]])],
     index |-> [i \in DOMAIN rows |-> i],
     rows |-> rows]

Columns(d) == {d.columns[j] : j \in DOMAIN d.columns}
RowIds(d) == DOMAIN d.rows

TextCells == {NA, Txt(<<"A", "n">>), Txt(<<"b">>)}
NumCells == {NaN, Inf} \cup {Num(n) : n \in 1..MaxVal}

DefaultSite(i) == IF i % 2 = 1 THEN Txt(<<"A", "n">>) ELSE Txt(<<"b">>)
DefaultAge(i) == Num(((i - 1) % MaxVal) + 1)
DefaultFlag(i) == Bool(i % 2 = 1)

SmallColumns == <<"site", "age", "flag">>

SmallTable(site, age, flag) ==
    load_from_file(SmallColumns,
        [i \in 1..NRows |-> [c \in {"site", "age", "flag"} |->
            CASE c = "site" -> site[i]
              [] c = "age" -> age[i]
              [] OTHER -> flag[i]]])

\* Small tables: one column ranges over every content, the others are fixed.
\* A text column that is missing everywhere is read as float64 NaN, so the
\* all-missing column is among the numeric ones.
SmallTables ==
    {SmallTable(s, [i \in 1..NRows |-> DefaultAge(i)], [i \in 1..NRows |-> DefaultFlag(i)]) :
        s \in {t \in [1..NRows -> TextCells] : \E i \in 1..NRows : t[i] # NA}}
    \cup
    {SmallTable([i \in 1..NRows |-> DefaultSite(i)], a, [i \in 1..NRows |-> DefaultFlag(i)]) :
        a \in [1..NRows -> NumCells]}
    \cup
    {SmallTable([i \in 1..NRows |-> DefaultSite(i)], [i \in 1..NRows |-> DefaultAge(i)],
                [i \in 1..NRows |-> Bool(f[i])]) :
        f \in [1..NRows -> BOOLEAN]}

\* Wide tables: one text column "name" with d distinct values (row 1 repeated
\* once, and one missing cell when hasNA), around the threshold.
Alphabet == <<"a", "n", "A", "b">>
Str(i) == <<Alphabet[((i \div 16) % 4) + 1], Alphabet[((i \div 4) % 4) + 1],
            Alphabet[(i % 4) + 1]>>

WideTable(d, hasNA) ==
    load_from_file(<<"name">>,
        [i \in 1..(d + 1 + (IF hasNA THEN 1 ELSE 0)) |-> [c \in {"name"} |->
            IF i <= d THEN Txt(Str(i))
            ELSE IF i = d + 1 THEN Txt(Str(1))
            ELSE NA]])

WideTables ==
    {WideTable(d, h) : d \in {UniqueThreshold, UniqueThreshold + 1}, h \in BOOLEAN}

Tables == SmallTables \cup WideTables

\* what the user can type into a text input (no regular-expression
\* metacharacters: str.contains reads its pattern as a regular expression)
Texts == {<<>>, <<"n", "a">>, <<"A", "N">>, <<"b">>}

(***************************************************************************)
(* pandas / Python operations used by build_filters.                       *)
(***************************************************************************)
\* str.lower(), one character
LowerChar(ch) ==
    CASE ch = "A" -> "a"
      [] ch = "N" -> "n"
      [] ch = "B" -> "b"
      [] OTHER -> ch

lower(s) == [i \in DOMAIN s |-> LowerChar(s[i])]

\* Series.astype(str): str() of every cell, the missing ones included
astype_str(cell) == IF cell.k = "na" THEN <<"n", "a", "n">> ELSE cell.v

\* str.contains(pat) for a pattern without metacharacters
contains(s, pat) ==
    \E i \in 0..(Len(s) - Len(pat)) : \A j \in 1..Len(pat) : s[i + j] = pat[j]

\* float() of a numeric or boolean cell
float(cell) == IF cell.k = "bool" THEN (IF cell.v THEN 1 ELSE 0) ELSE cell.v

\* a between that leaves the right bound out (inclusive="left")
between_open_right(cell, left, right) ==
    /\ cell.k \in {"num", "bool"}
    /\ left <= float(cell) /\ float(cell) < right

\* Series.between(left, right) on one cell: both bounds included, NaN never
between(cell, left, right) ==
    /\ cell.k \in {"num", "bool"}
    /\ left <= float(cell) /\ float(cell) <= right

\* an isin that keeps the values not listed
isin_complement(cell, values) == astype_str(cell) \notin values

\* Series.isin(values) on one cell of col_data.astype(str)
isin(cell, values) == astype_str(cell) \in values

\* code point of a character, for the ordering of text keys
Ord(ch) ==
    CASE ch = "A" -> 65
      [] ch = "B" -> 66
      [] ch = "N" -> 78
      [] ch = "a" -> 97
      [] ch = "b" -> 98
      [] OTHER -> 110

RECURSIVE str_less(_, _)
str_less(s, t) ==
    IF s = <<>> THEN t # <<>>
    ELSE IF t = <<>> THEN FALSE
    ELSE IF Head(s) # Head(t) THEN Ord(Head(s)) < Ord(Head(t))
    ELSE str_less(Tail(s), Tail(t))

\* the order of sorted() on strings and of groupby(sort=True) on group keys
key_less(a, b) ==
    CASE a.k = "str" -> str_less(a.v, b.v)
      [] a.k = "bool" -> (~a.v) /\ b.v
      [] a.k = "inf" -> FALSE
      [] OTHER -> b.k = "inf" \/ a.v < b.v

RECURSIVE sorted(_)
sorted(keys) ==
    IF keys = {} THEN <<>>
    ELSE LET m == CHOOSE x \in keys : \A y \in keys \ {x} : key_less(x, y)
         IN <<m>> \o sorted(keys \ {m})

col_data(d, c) == [i \in RowIds(d) |-> d.rows[i][c]]

\* col_data.nunique(dropna=True)
nunique(cells) == Cardinality({cells[i] : i \in {j \in DOMAIN cells : ~isna(cells[j])}})

\* sorted(col_data.dropna().unique().astype(str).tolist()): options[1:], the
\* choices of the multiselect
options(cells) ==
    LET u == sorted({cells[i] : i \in {j \in DOMAIN cells : ~isna(cells[j])}})
    IN [k \in DOMAIN u |-> astype_str(u[k])]

\* col_data.min() / col_data.max(): NaN is skipped; NaN when nothing is left
Present(cells) == {cells[i] : i \in {j \in DOMAIN cells : ~isna(cells[j])}}

min_val(cells) ==
    LET p == Present(cells) IN
    IF p = {} THEN NaN
    ELSE IF \A x \in p : x.k = "inf" THEN Inf
    ELSE LET f == {x \in p : x.k # "inf"}
         IN Num(float(CHOOSE x \in f : \A y \in f : float(x) <= float(y)))

max_val(cells) ==
    LET p == Present(cells) IN
    IF p = {} THEN NaN
    ELSE IF \E x \in p : x.k = "inf" THEN Inf
    ELSE Num(float(CHOOSE x \in p : \A y \in p : float(y) <= float(x)))

\* math.isfinite
isfinite(x) == x.k = "num"

is_numeric_dtype(dtype) == dtype \in {"int64", "float64", "bool"}
is_bool_dtype(dtype) == dtype = "bool"

\* df.select_dtypes(include=["object", "string"]).columns
str_cols(d) == {c \in Columns(d) : d.dtypes[c] = "object"}

(***************************************************************************)
(* build_filters.  w is the session's widget state: search_text, and per   *)
(* column the multiselect's selected set, the text input's val, the        *)
(* slider's (range_min, range_max) and the selectbox's choice.             *)
(* slider_raises says whether st.slider of this Streamlit build raises     *)
(* when min_value = max_value (the app does not pin the version).          *)
(***************************************************************************)
\* one mask over the rows of d, as filter_masks holds it
Mask(d, c, m) == <<[col |-> c, mask |-> m]>>

\* lines 44-52: the free-text search over all string columns
search_masks(d, search_text) ==
    IF search_text # <<>> /\ str_cols(d) # {}
    THEN Mask(d, "(search)",
              [i \in RowIds(d) |->
                  \E c \in str_cols(d) :
                      contains(lower(astype_str(d.rows[i][c])), lower(search_text))])
    ELSE <<>>

\* a threshold test that leaves 40 itself out
text_widget_below(n_unique) ==
    IF n_unique < UniqueThreshold THEN "multiselect" ELSE "text_input"

\* line 62: which widget a text column gets
text_widget(n_unique) ==
    IF n_unique <= UniqueThreshold THEN "multiselect" ELSE "text_input"

\* lines 55-109: the body of the loop for one column: the widget it renders,
\* the mask it appends (at most one) and whether the run stops with an exception
column_filter(d, c, w, slider_raises) ==
    LET cells == col_data(d, c)
        col_dtype == d.dtypes[c]
    IN
    IF col_dtype = "object"
    THEN IF text_widget(nunique(cells)) = "multiselect"
         THEN [widget |-> "multiselect",
               masks |-> IF w.selected[c] # {}
                         THEN Mask(d, c, [i \in RowIds(d) |-> isin(cells[i], w.selected[c])])
                         ELSE <<>>,
               raised |-> FALSE]
         ELSE [widget |-> "text_input",
               masks |-> IF w.val[c] # <<>>
                         THEN Mask(d, c, [i \in RowIds(d) |->
                                  contains(lower(astype_str(cells[i])), lower(w.val[c]))])
                         ELSE <<>>,
               raised |-> FALSE]
    ELSE IF is_numeric_dtype(col_dtype)
    THEN IF ~isfinite(min_val(cells)) \/ ~isfinite(max_val(cells))
         THEN [widget |-> "none", masks |-> <<>>, raised |-> FALSE]
         ELSE IF min_val(cells) = max_val(cells) /\ slider_raises
         THEN [widget |-> "none", masks |-> <<>>, raised |-> TRUE]
         ELSE [widget |-> "slider",
               masks |-> Mask(d, c, [i \in RowIds(d) |->
                            between(cells[i], w.slider[c][1], w.slider[c][2])]),
               raised |-> FALSE]
    ELSE IF is_bool_dtype(col_dtype)
    THEN [widget |-> "selectbox",
          masks |-> IF w.choice[c] = "True only"
                    THEN Mask(d, c, [i \in RowIds(d) |-> cells[i].v = TRUE])
                    ELSE IF w.choice[c] = "False only"
                    THEN Mask(d, c, [i \in RowIds(d) |-> cells[i].v = FALSE])
                    ELSE <<>>,
          raised |-> FALSE]
    ELSE [widget |-> "none", masks |-> <<>>, raised |-> FALSE]

\* lines 54-109: the loop over df.columns, up to column j; nothing after an
\* exception is run
RECURSIVE column_loop(_, _, _, _)
column_loop(d, w, slider_raises, j) ==
    IF j = 0
    THEN [widgets |-> [c \in Columns(d) |-> "none"],
          filter_masks |-> search_masks(d, w.search_text),
          raised |-> FALSE]
    ELSE LET acc == column_loop(d, w, slider_raises, j - 1)
             c == d.columns[j]
             f == column_filter(d, c, w, slider_raises)
         IN IF acc.raised THEN acc
            ELSE [widgets |-> [acc.widgets EXCEPT ![c] = f.widget],
                  filter_masks |-> acc.filter_masks \o f.masks,
                  raised |-> f.raised]

\* lines 112-114: combined_mask = filter_masks[0] & filter_masks[1] & ...
combined_mask(d, filter_masks) ==
    [i \in RowIds(d) |-> \A k \in DOMAIN filter_masks : filter_masks[k].mask[i]]

\* df[combined_mask]: the rows whose mask is True, in order, with their index
\* labels; the source frame is not touched
boolean_index(d, mask) ==
    LET keep[i \in 0..Len(d.rows)] ==
            IF i = 0 THEN <<>>
            ELSE IF mask[i] THEN Append(keep[i - 1], i) ELSE keep[i - 1]
        kept == keep[Len(d.rows)]
    IN [columns |-> d.columns,
        dtypes |-> d.dtypes,
        index |-> [k \in DOMAIN kept |-> d.index[kept[k]]],
        rows |-> [k \in DOMAIN kept |-> d.rows[kept[k]]]]

\* lines 37-117
build_filters(d, w, slider_raises) ==
    LET run == column_loop(d, w, slider_raises, Len(d.columns))
    IN [widgets |-> run.widgets,
        filter_masks |-> run.filter_masks,
        raised |-> run.raised,
        result |-> IF run.filter_masks # <<>>
                   THEN boolean_index(d, combined_mask(d, run.filter_masks))
                   ELSE d]

(***************************************************************************)
(* The summary section of main (lines 170-193).                            *)
(***************************************************************************)
\* filtered_df.select_dtypes(include="number").columns.tolist()
numeric_cols(f) ==
    SelectSeq(f.columns, LAMBDA c : f.dtypes[c] \in {"int64", "float64"})

\* the keys of filtered_df.groupby(group_col): dropna=True leaves the rows
\* with a missing key out of every group
groupby_keys(f, group_col) ==
    sorted({f.rows[i][group_col] : i \in {j \in DOMAIN f.rows : ~isna(f.rows[j][group_col])}})

\* line 185: groupby(group_col).size().reset_index(name="count")
groupby_size(f, group_col) ==
    LET keys == groupby_keys(f, group_col)
    IN [k \in DOMAIN keys |->
           [key |-> keys[k],
            count |-> Cardinality({i \in DOMAIN f.rows : f.rows[i][group_col] = keys[k]})]]

\* line 187 without the arithmetic: per group and numeric column, the
\* non-missing values the aggregate (mean, median or sum) is taken over
groupby_agg(f, group_col, cols) ==
    LET keys == groupby_keys(f, group_col)
    IN [k \in DOMAIN keys |->
           [key |-> keys[k],
            over |-> [c \in {cols[j] : j \in DOMAIN cols} |->
                        LET members == SelectSeq(f.rows,
                                LAMBDA r : r[group_col] = keys[k] /\ ~isna(r[c]))
                        IN [m \in DOMAIN members |-> members[m][c]]]]]

\* lines 172-193.  shown: what the section displays; the selectboxes that were
\* not rendered lose their value.
summary_section(f, group_col, agg_func) ==
    IF Len(f.rows) = 0
    THEN [shown |-> "nothing", rows |-> <<>>, raised |-> FALSE,
          group_col |-> "(none)", agg_func |-> "mean"]
    ELSE IF group_col = "(none)"
    THEN [shown |-> "caption", rows |-> <<>>, raised |-> FALSE,
          group_col |-> group_col, agg_func |-> "mean"]
    ELSE IF numeric_cols(f) = <<>>
    THEN [shown |-> "info", rows |-> <<>>, raised |-> FALSE,
          group_col |-> group_col, agg_func |-> "mean"]
    ELSE IF agg_func = "count"
    THEN [shown |-> "count", rows |-> groupby_size(f, group_col), raised |-> FALSE,
          group_col |-> group_col, agg_func |-> agg_func]
    ELSE IF \E j \in DOMAIN numeric_cols(f) : numeric_cols(f)[j] = group_col
    \* reset_index() cannot insert the key: the column selection holds it already
    THEN [shown |-> "nothing", rows |-> <<>>, raised |-> TRUE,
          group_col |-> group_col, agg_func |-> agg_func]
    ELSE [shown |-> "aggregate", rows |-> groupby_agg(f, group_col, numeric_cols(f)),
          raised |-> FALSE, group_col |-> group_col, agg_func |-> agg_func]

\* lines 164-193: one run of the script on the loaded table
main(d, w, group_col, agg_func, raises) ==
    LET b == build_filters(d, w, raises)
        s == summary_section(b.result, group_col, agg_func)
    IN IF b.raised
       THEN [widgets |-> b.widgets, filter_masks |-> b.filter_masks,
             outcome |-> "build_filters raised",
             filtered_df |-> boolean_index(d, [i \in RowIds(d) |-> FALSE]),
             summary |-> [shown |-> "nothing", rows |-> <<>>],
             group_col |-> "(none)", agg_func |-> "mean"]
       ELSE [widgets |-> b.widgets, filter_masks |-> b.filter_masks,
             outcome |-> IF s.raised THEN "summary raised" ELSE "done",
             filtered_df |-> b.result,
             summary |-> [shown |-> s.shown, rows |-> s.rows],
             group_col |-> s.group_col, agg_func |-> s.agg_func]

(***************************************************************************)
(* The session.                                                            *)
(***************************************************************************)
VARIABLES
    df,             \* the table the Data source section loaded
    slider_raises,  \* st.slider of this build raises on min_value = max_value
    search_text,    \* value of the free text search
    selected,       \* column -> selected values of its multiselect
    val,            \* column -> text of its "Contains" input
    slider,         \* column -> (range_min, range_max) of its slider
    choice,         \* column -> choice of its boolean selectbox
    group_col,      \* value of "Group by (optional)"
    agg_func,       \* value of "Aggregation"
    widgets,        \* column -> the widget the last run rendered for it
    filter_masks,   \* the masks the last run collected
    outcome,        \* how the last run ended
    filtered_df,    \* the table the last run displayed
    summary         \* what the summary section displayed

vars == <<df, slider_raises, search_text, selected, val, slider, choice, group_col,
          agg_func, widgets, filter_masks, outcome, filtered_df, summary>>

Aggregations == {"mean", "median", "sum", "count"}

\* the widget values of the session, as build_filters reads them
Session(t, s, v, r, ch) ==
    [search_text |-> t, selected |-> s, val |-> v, slider |-> r, choice |-> ch]

\* value=(min_val, max_val): where a slider starts
slider_default(d, c) ==
    IF is_numeric_dtype(d.dtypes[c]) /\ isfinite(min_val(col_data(d, c)))
           /\ isfinite(max_val(col_data(d, c)))
    THEN <<min_val(col_data(d, c)).v, max_val(col_data(d, c)).v>>
    ELSE <<0, 0>>

\* a numeric column whose slider would get min_value = max_value: only for
\* such a table does it show whether st.slider raises on equal bounds
has_constant_numeric(d) ==
    \E c \in Columns(d) :
        /\ is_numeric_dtype(d.dtypes[c])
        /\ isfinite(min_val(col_data(d, c)))
        /\ min_val(col_data(d, c)) = max_val(col_data(d, c))

\* the script runs with the given widget values and displays its results
Run(w, g, a) ==
    \E r \in {main(df, w, g, a, slider_raises)} :
       /\ search_text' = w.search_text
       /\ selected' = w.selected
       /\ val' = w.val
       /\ slider' = w.slider
       /\ choice' = w.choice
       /\ group_col' = r.group_col
       /\ agg_func' = r.agg_func
       /\ widgets' = r.widgets
       /\ filter_masks' = r.filter_masks
       /\ outcome' = r.outcome
       /\ filtered_df' = r.filtered_df
       /\ summary' = r.summary
       /\ UNCHANGED <<df, slider_raises>>

Init ==
    /\ df \in Tables
    /\ slider_raises \in (IF has_constant_numeric(df) THEN BOOLEAN ELSE {FALSE})
    /\ search_text = <<>>
    /\ selected = [c \in Columns(df) |-> {}]
    /\ val = [c \in Columns(df) |-> <<>>]
    /\ slider = [c \in Columns(df) |-> slider_default(df, c)]
    /\ choice = [c \in Columns(df) |-> "(no filter)"]
    /\ \E r \in {main(df, Session(search_text, selected, val, slider, choice),
                      "(none)", "mean", slider_raises)} :
          /\ group_col = r.group_col
          /\ agg_func = r.agg_func
          /\ widgets = r.widgets
          /\ filter_masks = r.filter_masks
          /\ outcome = r.outcome
          /\ filtered_df = r.filtered_df
          /\ summary = r.summary

\* line 44: the user types into the free text search
SetSearchText ==
    \E t \in Texts \ {search_text} :
        Run(Session(t, selected, val, slider, choice), group_col, agg_func)

\* the selections a multiselect can hold
Picks(opts) == SUBSET {opts[k] : k \in {j \in DOMAIN opts : j <= MaxPick}}

\* lines 64-69: the user changes the selection of a column's multiselect
SetMultiselect ==
    \E c \in Columns(df) :
        /\ widgets[c] = "multiselect"
        /\ \E S \in Picks(options(col_data(df, c))) \ {selected[c]} :
              Run(Session(search_text, [selected EXCEPT ![c] = S], val, slider, choice),
                  group_col, agg_func)

\* lines 74-78: the user types into a column's "Contains" input
SetContains ==
    \E c \in Columns(df) :
        /\ widgets[c] = "text_input"
        /\ \E t \in Texts \ {val[c]} :
              Run(Session(search_text, selected, [val EXCEPT ![c] = t], slider, choice),
                  group_col, agg_func)

\* lines 89-95: the user moves a column's slider
SetSlider ==
    \E c \in Columns(df) :
        /\ widgets[c] = "slider"
        /\ \E lo \in slider_default(df, c)[1]..slider_default(df, c)[2] :
           \E hi \in lo..slider_default(df, c)[2] :
              /\ <<lo, hi>> # slider[c]
              /\ Run(Session(search_text, selected, val, [slider EXCEPT ![c] = <<lo, hi>>],
                             choice),
                     group_col, agg_func)

\* lines 173-176: the user picks the group-by column
SetGroupBy ==
    /\ outcome # "build_filters raised"
    /\ Len(filtered_df.rows) > 0
    /\ \E g \in ({"(none)"} \cup Columns(df)) \ {group_col} :
          Run(Session(search_text, selected, val, slider, choice), g, agg_func)

\* lines 180-183: the user picks the aggregation
SetAggregation ==
    /\ outcome # "build_filters raised"
    /\ Len(filtered_df.rows) > 0
    /\ group_col # "(none)"
    /\ numeric_cols(filtered_df) # <<>>
    /\ \E a \in Aggregations \ {agg_func} :
          Run(Session(search_text, selected, val, slider, choice), group_col, a)

\* sessions in which the user works the sidebar's filters
Next ==
    \/ SetSearchText
    \/ SetMultiselect
    \/ SetContains
    \/ SetSlider

Spec == Init /\ [][Next]_vars

\* sessions in which the user works the free text search and the summary
NextSummary ==
    \/ SetSearchText
    \/ SetGroupBy
    \/ SetAggregation

SpecSummary == Init /\ [][NextSummary]_vars

(***************************************************************************)
(* Vocabulary of the properties: read off the table and the widget values, *)
(* without the operators above.                                            *)
(***************************************************************************)
Returned == outcome # "build_filters raised"

Missing(cell) == cell.k = "na" \/ cell.k = "nan"

\* the distinct non-missing texts of a text column
DistinctTexts(c) == {df.rows[i][c].v : i \in {j \in DOMAIN df.rows : df.rows[j][c].k = "str"}}

\* the number a numeric or boolean cell stands for
ValueOf(cell) == IF cell.k = "bool" THEN (IF cell.v THEN 1 ELSE 0) ELSE cell.v

\* the finite values of a column
FiniteValues(c) ==
    {ValueOf(df.rows[i][c]) : i \in {j \in DOMAIN df.rows : df.rows[j][c].k \in {"num", "bool"}}}

Lowest(S) == CHOOSE x \in S : \A y \in S : x <= y
Highest(S) == CHOOSE x \in S : \A y \in S : y <= x

\* t occurs in s, letter case ignored
Occurs(t, s) ==
    \E i \in 0..(Len(s) - Len(t)) :
        \A j \in 1..Len(t) : LowerChar(s[i + j]) = LowerChar(t[j])

\* the rows of the displayed table, by index label
Shown == {filtered_df.index[k] : k \in DOMAIN filtered_df.index}

\* the displayed table is the source restricted to the rows in keep, in order
IsRestriction(keep) ==
    /\ filtered_df.columns = df.columns
    /\ filtered_df.index = SelectSeq(df.index, LAMBDA i : i \in keep)
    /\ \A k \in DOMAIN filtered_df.rows :
          /\ k \in DOMAIN filtered_df.index
          /\ filtered_df.rows[k] = df.rows[filtered_df.index[k]]

\* every filter is in its inactive position
AllInactive ==
    /\ search_text = <<>>
    /\ \A c \in Columns(df) :
          /\ widgets[c] = "multiselect" => selected[c] \in {{}, DistinctTexts(c)}
          /\ widgets[c] = "text_input" => val[c] = <<>>
          /\ widgets[c] = "slider" =>
                slider[c] = <<Lowest(FiniteValues(c)), Highest(FiniteValues(c))>>
          /\ widgets[c] = "selectbox" => choice[c] = "(no filter)"

\* C1: with every filter inactive, build_filters returns exactly the source
\* table: the same rows in the same order, none dropped, also when columns
\* hold missing cells.
C1_IdentityFilter ==
    (Returned /\ AllInactive) => IsRestriction(DOMAIN df.rows)

\* between two consecutive runs exactly one column's filter was narrowed: a
\* multiselect to a subset (a non-empty one when nonEmpty), or a slider to a
\* range inside the previous one
Narrowed(nonEmpty) ==
    /\ search_text' = search_text /\ val' = val /\ choice' = choice
    /\ \E c \in Columns(df) :
          /\ \A o \in Columns(df) \ {c} : selected'[o] = selected[o] /\ slider'[o] = slider[o]
          /\ \/ /\ widgets[c] = "multiselect"
                /\ slider'[c] = slider[c]
                /\ selected'[c] # selected[c]
                /\ selected'[c] \subseteq selected[c]
                /\ nonEmpty => selected'[c] # {}
             \/ /\ widgets[c] = "slider"
                /\ selected'[c] = selected[c]
                /\ slider'[c] # slider[c]
                /\ slider[c][1] <= slider'[c][1]
                /\ slider'[c][2] <= slider[c][2]

\* C2 as stated: narrowing one column's filter, a multiselect down to and
\* including the empty selection, never increases the number of rows returned.
C2_MonotoneDownToEmpty ==
    [][Narrowed(FALSE) => Len(filtered_df'.rows) <= Len(filtered_df.rows)]_vars

\* C2 as amended: narrowing one column's filter, a multiselect to a non-empty
\* subset or a slider to a range inside the previous one, never increases the
\* number of rows returned.
C2_MonotoneNonEmpty ==
    [][Narrowed(TRUE) => Len(filtered_df'.rows) <= Len(filtered_df.rows)]_vars

\* a multiselect holds a non-empty proper part of its column's values, and a
\* slider a range with both ends moved in: rows were dropped
C2_Witness ==
    /\ Returned
    /\ \E c \in Columns(df) :
          /\ widgets[c] = "multiselect"
          /\ selected[c] # {}
          /\ selected[c] # DistinctTexts(c)
          /\ selected[c] \subseteq DistinctTexts(c)
    /\ \E c \in Columns(df) :
          /\ widgets[c] = "slider"
          /\ slider[c][1] > Lowest(FiniteValues(c))
    /\ Len(filtered_df.rows) < Len(df.rows)

\* the filter of column c is active
ActiveOn(c) ==
    \/ widgets[c] = "multiselect" /\ selected[c] # {}
    \/ widgets[c] = "text_input" /\ val[c] # <<>>
    \/ widgets[c] = "slider"

\* C3: no row whose cell is missing in a column with an active filter (a
\* non-empty selection, a non-empty substring, a numeric range) is returned.
C3_MissingExcluded ==
    Returned =>
        \A c \in Columns(df) :
            ActiveOn(c) => \A i \in Shown : ~Missing(df.rows[i][c])

\* row i satisfies the predicate of column c's filter, as the widget kinds
\* define it; a missing cell satisfies no active predicate
Satisfies(i, c) ==
    LET cell == df.rows[i][c] IN
    /\ (widgets[c] = "multiselect" /\ selected[c] # {}) =>
          cell.k = "str" /\ cell.v \in selected[c]
    /\ (widgets[c] = "text_input" /\ val[c] # <<>>) =>
          cell.k = "str" /\ Occurs(val[c], cell.v)
    /\ widgets[c] = "slider" =>
          /\ cell.k \in {"num", "bool"}
          /\ slider[c][1] <= ValueOf(cell) /\ ValueOf(cell) <= slider[c][2]
    /\ (widgets[c] = "selectbox" /\ choice[c] = "True only") => cell.v = TRUE
    /\ (widgets[c] = "selectbox" /\ choice[c] = "False only") => cell.v = FALSE

\* row i holds the search text in one of its text cells
Found(i) ==
    \E c \in Columns(df) :
        df.rows[i][c].k = "str" /\ Occurs(search_text, df.rows[i][c].v)

\* C4: the rows returned are exactly the source rows that satisfy every active
\* per-column predicate and, when the search is non-empty, hold the search text
\* in a text column; in source order, with all columns.
C4_Composition ==
    Returned =>
        IsRestriction({i \in DOMAIN df.rows :
            /\ \A c \in Columns(df) : Satisfies(i, c)
            /\ search_text # <<>> => Found(i)})

\* C5: a text column gets the multiselect when it has at most 40 distinct
\* non-missing values and the substring input when it has 41 or more; the
\* decision is a function of the column's data alone, so it is the same after
\* every run.
C5_ClassifierThreshold ==
    Returned =>
        \A c \in Columns(df) :
            df.dtypes[c] = "object" =>
                /\ Cardinality(DistinctTexts(c)) <= 40 => widgets[c] = "multiselect"
                /\ Cardinality(DistinctTexts(c)) >= 41 => widgets[c] = "text_input"

\* a text column with exactly 40 distinct values and a missing cell has the
\* multiselect, after the user has used it
C5_Witness ==
    /\ Returned
    /\ \E c \in Columns(df) :
          /\ df.dtypes[c] = "object"
          /\ Cardinality(DistinctTexts(c)) = 40
          /\ \E i \in DOMAIN df.rows : Missing(df.rows[i][c])
          /\ widgets[c] = "multiselect"
          /\ selected[c] # {}

\* every slider stands at its column's full [min, max]
SlidersFull ==
    \A c \in Columns(df) :
        widgets[c] = "slider" =>
            slider[c] = <<Lowest(FiniteValues(c)), Highest(FiniteValues(c))>>

\* the mask of every slider keeps exactly the rows with low <= value <= high
RangeInclusive ==
    \A c \in Columns(df) :
        widgets[c] = "slider" =>
            /\ Lowest(FiniteValues(c)) <= slider[c][1]
            /\ slider[c][1] <= slider[c][2]
            /\ slider[c][2] <= Highest(FiniteValues(c))
            /\ Cardinality({k \in DOMAIN filter_masks : filter_masks[k].col = c}) = 1
            /\ \A k \in DOMAIN filter_masks :
                  filter_masks[k].col = c =>
                      \A i \in DOMAIN df.rows :
                          filter_masks[k].mask[i] <=>
                              /\ df.rows[i][c].k \in {"num", "bool"}
                              /\ slider[c][1] <= ValueOf(df.rows[i][c])
                              /\ ValueOf(df.rows[i][c]) <= slider[c][2]

\* C6: a slider starts at its column's full [min, max], and at every setting
\* [low, high] its predicate keeps exactly the rows with low <= value <= high,
\* both bounds included.
C6_RangeInclusive == SlidersFull /\ []RangeInclusive

\* a slider moved off its start keeps a row whose value is its upper bound and
\* drops a row below its lower bound
C6_Witness ==
    /\ Returned
    /\ \E c \in Columns(df) :
          /\ widgets[c] = "slider"
          /\ slider[c][1] < slider[c][2]
          /\ \E i \in Shown : df.rows[i][c].k = "num" /\ df.rows[i][c].v = slider[c][2]
          /\ \E i \in DOMAIN df.rows :
                df.rows[i][c].k = "num" /\ df.rows[i][c].v < slider[c][1] /\ i \notin Shown

\* the displayed rows whose group cell is key
Group(key) == {k \in DOMAIN filtered_df.rows : filtered_df.rows[k][group_col] = key}

\* C7: a count summary has one row per distinct value of the group column, one
\* for the missing value included when rows have it, each with the number of
\* displayed rows in its group; the counts add up to the displayed rows.
C7_CountSummary ==
    summary.shown = "count" =>
        /\ {summary.rows[k].key : k \in DOMAIN summary.rows}
              = {filtered_df.rows[k][group_col] : k \in DOMAIN filtered_df.rows}
        /\ \A k \in DOMAIN summary.rows :
              summary.rows[k].count = Cardinality(Group(summary.rows[k].key))
        /\ \A k \in DOMAIN filtered_df.rows :
              \E j \in DOMAIN summary.rows : summary.rows[j].key = filtered_df.rows[k][group_col]

\* C8: with a group-by column chosen, "nothing to summarise" is reported
\* exactly when the aggregation is not count and no numeric column other than
\* the group column exists.
C8_SummaryPrecondition ==
    (Returned /\ Len(filtered_df.rows) > 0 /\ group_col # "(none)") =>
        (summary.shown = "info" <=>
            /\ agg_func # "count"
            /\ ~ \E c \in Columns(df) \ {group_col} : df.dtypes[c] \in {"int64", "float64"})

\* C9: every boolean column gets the tri-state selectbox and no other widget.
C9_BooleanTriState ==
    Returned =>
        \A c \in Columns(df) : df.dtypes[c] = "bool" => widgets[c] = "selectbox"

\* a numeric column build_filters is to skip: it has no finite value, or a
\* non-finite one, or a single value
Degenerate(c) ==
    /\ df.dtypes[c] \in {"int64", "float64"}
    /\ \/ \E i \in DOMAIN df.rows : df.rows[i][c].k = "inf"
       \/ Cardinality(FiniteValues(c)) <= 1

\* C10: a degenerate column is skipped without an error: it gets no widget
\* and no mask, and the other columns still get their filters.
C10_DegenerateSkipped ==
    \A c \in Columns(df) :
        Degenerate(c) =>
            /\ Returned
            /\ widgets[c] = "none"
            /\ \A k \in DOMAIN filter_masks : filter_masks[k].col # c
            /\ \A o \in Columns(df) \ {c} : ~Degenerate(o) => widgets[o] # "none"

====
